---- MODULE Spec2Model ----
(***************************************************************************)
(* Model of the Tauri command handlers of Universal-disk-explorer          *)
(* (front-end/src-tauri/src/commands.rs, duplicated in main.rs):           *)
(* get_thumbnail, open_file and open_file_folder.                          *)
(*                                                                         *)
(* A command invocation runs on a host thread.  get_thumbnail is modelled  *)
(* stage by stage (open, decode, measure, geometry, resize, encode,        *)
(* package) so that invocations on different threads interleave; the two   *)
(* path-opener commands are single steps.  The file system is read only.   *)
(***************************************************************************)
EXTENDS Integers, Sequences, FiniteSets, TLC

----------------------------------------------------------------------------
(* Bounds of the model *)

\* source images have every width and height of 1..MaxDim, and SampleDims
MaxDim == 10

\* number of host threads that run commands concurrently
NumThreads == 2

\* further source dimensions: the sizes the specification quotes
SampleDims == {100, 200, 333, 400, 500, 10000}

----------------------------------------------------------------------------
(* Program constants *)

\* let new_width = 100;
TargetWidth == 100

\* ImageOutputFormat::Jpeg(90)
JpegQuality == 90

\* f32: 24 significant bits (1 implicit + 23 stored)
F32Digits == 24

----------------------------------------------------------------------------
(* f32 arithmetic.  A positive finite f32 is m * 2^e with                  *)
(* 2^23 <= m < 2^24, written [m |-> m, e |-> e].                           *)

F32Top == 2 ^ F32Digits

\* Long division n / d, one quotient bit per step, until the quotient has
\* F32Digits + 1 bits (the mantissa and the rounding bit).  The quotient so
\* far is q * 2^e, the remainder r.
RECURSIVE F32LongDiv(_, _, _, _)
F32LongDiv(q, r, d, e) ==
    IF q >= F32Top
    THEN [q |-> q, r |-> r, e |-> e]
    ELSE IF 2 * r >= d
         THEN F32LongDiv(2 * q + 1, 2 * r - d, d, e - 1)
         ELSE F32LongDiv(2 * q, 2 * r, d, e - 1)

\* Round to nearest, ties to even (the IEEE 754 default rounding of `/`).
F32Round(x) ==
    LET m    == x.q \div 2
        half == x.q % 2
        up   == half = 1 /\ (x.r # 0 \/ m % 2 = 1)
        m1   == IF up THEN m + 1 ELSE m
    IN  IF m1 = F32Top
        THEN [m |-> F32Top \div 2, e |-> x.e + 2]
        ELSE [m |-> m1, e |-> x.e + 1]

\* n as f32 / d as f32 for integers 0 < n, d < 2^24 (exactly representable)
F32Div(n, d) == F32Round(F32LongDiv(n \div d, n % d, d, 0))

\* `x as u32` of a positive finite f32: truncation toward zero.  Values of
\* 2^24 and more do not arise from the dimensions of the model.
RECURSIVE F32Shr(_, _)
F32Shr(m, k) == IF k = 0 \/ m = 0 THEN m ELSE F32Shr(m \div 2, k - 1)

F32ToU32(x) == IF x.e >= 0 THEN x.m * (2 ^ x.e) ELSE F32Shr(x.m, 0 - x.e)


----------------------------------------------------------------------------
(* The file system, and what the libraries make of a file *)

Root == "/"
FilePaths == {"/a.png", "/b.png"}
Paths == {Root} \cup FilePaths

\* std::path::Path::parent: None for the root, else the containing folder
NoPath == ""
Parent(path) == IF path = Root THEN NoPath ELSE Root

\* A file: nothing at the path ("missing"), a file the process may not open
\* ("denied"), a directory ("dir"), bytes that are no image ("garbage") or an
\* image of w x h pixels whose pixel layout the JPEG encoder takes or not.
File(kind, w, h, jpegOk) == [kind |-> kind, w |-> w, h |-> h, jpegOk |-> jpegOk]
Missing == File("missing", 0, 0, FALSE)
Denied == File("denied", 0, 0, FALSE)
Directory == File("dir", 0, 0, FALSE)
Garbage == File("garbage", 0, 0, FALSE)
Image(w, h, jpegOk) == File("image", w, h, jpegOk)

Dims == (1..MaxDim) \cup SampleDims
Images == {Image(w, h, ok) : w \in Dims, h \in Dims, ok \in BOOLEAN}
Files == {Missing, Denied, Garbage} \cup Images

\* a file system: what is at each of the two file paths
Disk(a, b) == [p \in FilePaths |-> IF p = "/a.png" THEN a ELSE b]

\* the file systems of the concurrent specification
FewDisks ==
    {Disk(Image(400, 200, TRUE), Image(10000, 1, TRUE)),
     Disk(Image(3, 3, FALSE), Image(333, 100, TRUE)),
     Disk(Denied, Image(500, 500, TRUE)),
     Disk(Missing, Garbage)}

FileAt(files, path) == IF path = Root THEN Directory ELSE files[path]

\* ImageReader::open: File::open, which fails for a missing path and for a
\* file the process may not read; a directory opens
ReaderOpens(file) == file.kind \notin {"missing", "denied"}

\* Reader::decode: reads and decodes; an Err for a directory (the read
\* fails) and for bytes that are no image
Decodes(file) == file.kind = "image"

\* a decoded or resampled raster
Raster(w, h, jpegOk) == [w |-> w, h |-> h, jpegOk |-> jpegOk]
NoRaster == Raster(0, 0, FALSE)

\* DynamicImage::resize_exact: a raster of exactly nwidth x nheight, in the
\* pixel layout of the source; it returns no Result
resize_exact(img, nwidth, nheight) == Raster(nwidth, nheight, img.jpegOk)

\* DynamicImage::write_to(.., Jpeg(quality)): Err for a pixel layout the
\* JPEG encoder does not take
JpegEncodes(raster) == raster.jpegOk
JpegBytes(raster, quality) ==
    [format |-> "jpeg", quality |-> quality, w |-> raster.w, h |-> raster.h]
NoBytes == [format |-> "", quality |-> 0, w |-> 0, h |-> 0]

\* base64::encode and the format! of the data URL
DataUrl(bytes) == [prefix |-> "data:image/jpeg;base64,", payload |-> bytes]
NoDataUrl == [prefix |-> "", payload |-> NoBytes]

\* opener::open: fails when nothing is at the path; may fail otherwise (no
\* handler is registered, the handler exits with an error)
OpenerOpens(file, handlerOk) == file.kind # "missing" /\ handlerOk

----------------------------------------------------------------------------
(* Results of the commands *)

ErrOpen == "Failed to open image"
ErrDecode == "Failed to decode image"
ErrEncode == "Failed to encode thumbnail"

\* Result<ThumbnailResponse, String>, and the () of the opener commands
Result(tag, data_url, width, height, err) ==
    [tag |-> tag, data_url |-> data_url, width |-> width, height |-> height,
     err |-> err]
NoResult == Result("none", NoDataUrl, 0, 0, "")
Err(msg) == Result("Err", NoDataUrl, 0, 0, msg)
ThumbnailResponse(data_url, width, height) ==
    Result("Ok", data_url, width, height, "")
Unit == Result("Unit", NoDataUrl, 0, 0, "")
Panicked == Result("Panic", NoDataUrl, 0, 0, "")

\* let aspect_ratio = width as f32 / height as f32;
\* let new_height = (new_width as f32 / aspect_ratio) as u32;
NewHeight(width, height, new_width) ==
    LET aspect_ratio == F32Div(width, height)
        quotient == F32Div(new_width, aspect_ratio.m)
    IN  F32ToU32([m |-> quotient.m, e |-> quotient.e - aspect_ratio.e])

----------------------------------------------------------------------------
(* State *)

VARIABLES
    fs,        \* FilePaths -> file: the file system (no command writes it)
    threads,   \* the host threads that run commands
    frame,     \* thread -> the command it runs and the command's locals
    history    \* the get_thumbnail calls that returned: path and outcome

vars == <<fs, threads, frame, history>>

Threads == 1..NumThreads

\* the locals of a command, with the names of the source; trace lists the
\* stages the running get_thumbnail call has executed and os_failed tells
\* whether the call of the OS handler failed
IdleFrame ==
    [pc |-> "idle", cmd |-> "", path |-> NoPath, img |-> NoRaster,
     width |-> 0, height |-> 0, new_width |-> 0, new_height |-> 0,
     thumbnail |-> NoRaster, bytes |-> NoBytes, data_url |-> NoDataUrl,
     result |-> NoResult, trace |-> <<>>, os_failed |-> FALSE]

Outcome(result) ==
    [tag |-> result.tag, width |-> result.width, height |-> result.height,
     err |-> result.err]

Init ==
    /\ fs \in FewDisks
    /\ threads = Threads
    /\ frame = [t \in Threads |-> IdleFrame]
    /\ history = {}

\* one thread, every file: the runs that exercise the geometry
InitGeometry ==
    /\ \E f \in Files : fs = Disk(f, Garbage)
    /\ threads = {1}
    /\ frame = [t \in Threads |-> IdleFrame]
    /\ history = {}

----------------------------------------------------------------------------
(* get_thumbnail(path), one action per stage *)

Stage(t, stage) ==
    /\ t \in threads
    /\ frame[t].cmd = "get_thumbnail"
    /\ frame[t].pc = stage

\* the frame of t after `stage` ran and left the changes `f` behind
Ran(t, stage, f) == [f EXCEPT !.trace = Append(frame[t].trace, stage)]

\* the stages of get_thumbnail, in the order of the source
StageOrder ==
    <<"open", "decode", "measure", "geometry", "resize", "encode", "package">>

\* Mutant of Fail: a failing stage answers with a placeholder thumbnail.
Fail_Placeholder(t, stage, msg) ==
    Ran(t, stage, [frame[t] EXCEPT
                      !.pc = "done",
                      !.result = ThumbnailResponse(NoDataUrl, TargetWidth, 0)])

\* `?` on an Err: the call returns the error
Fail(t, stage, msg) ==
    Ran(t, stage, [frame[t] EXCEPT !.pc = "done", !.result = Err(msg)])

\* the host calls the command on an idle thread
invoke_get_thumbnail(t, path) ==
    /\ t \in threads
    /\ frame[t].pc = "idle"
    /\ frame' = [frame EXCEPT ![t] =
                    [IdleFrame EXCEPT !.pc = "open", !.cmd = "get_thumbnail",
                                      !.path = path]]
    /\ UNCHANGED <<fs, threads, history>>

\* Mutant of get_thumbnail_open: the failure carries the decode message.
get_thumbnail_open_AsDecode(t) ==
    /\ Stage(t, "open")
    /\ frame' = [frame EXCEPT ![t] =
                    IF ReaderOpens(FileAt(fs, frame[t].path))
                    THEN Ran(t, "open", [frame[t] EXCEPT !.pc = "decode"])
                    ELSE Fail(t, "open", ErrDecode)]
    /\ UNCHANGED <<fs, threads, history>>

\* ImageReader::open(&path).map_err(..)?
get_thumbnail_open(t) ==
    /\ Stage(t, "open")
    /\ frame' = [frame EXCEPT ![t] =
                    IF ReaderOpens(FileAt(fs, frame[t].path))
                    THEN Ran(t, "open", [frame[t] EXCEPT !.pc = "decode"])
                    ELSE Fail(t, "open", ErrOpen)]
    /\ UNCHANGED <<fs, threads, history>>

\* Mutant of get_thumbnail_decode: the failure carries the open message.
get_thumbnail_decode_AsOpen(t) ==
    /\ Stage(t, "decode")
    /\ LET file == FileAt(fs, frame[t].path)
       IN  frame' = [frame EXCEPT ![t] =
                        IF Decodes(file)
                        THEN Ran(t, "decode",
                                 [frame[t] EXCEPT
                                     !.pc = "measure",
                                     !.img = Raster(file.w, file.h, file.jpegOk)])
                        ELSE Fail(t, "decode", ErrOpen)]
    /\ UNCHANGED <<fs, threads, history>>

\* .decode().map_err(..)?
get_thumbnail_decode(t) ==
    /\ Stage(t, "decode")
    /\ LET file == FileAt(fs, frame[t].path)
       IN  frame' = [frame EXCEPT ![t] =
                        IF Decodes(file)
                        THEN Ran(t, "decode",
                                 [frame[t] EXCEPT
                                     !.pc = "measure",
                                     !.img = Raster(file.w, file.h, file.jpegOk)])
                        ELSE Fail(t, "decode", ErrDecode)]
    /\ UNCHANGED <<fs, threads, history>>

\* let (width, height) = img.dimensions();
get_thumbnail_measure(t) ==
    /\ Stage(t, "measure")
    /\ frame' = [frame EXCEPT ![t] =
                    Ran(t, "measure",
                        [frame[t] EXCEPT !.pc = "geometry",
                                         !.width = frame[t].img.w,
                                         !.height = frame[t].img.h])]
    /\ UNCHANGED <<fs, threads, history>>

\* Mutant of get_thumbnail_geometry: new_height is one static shared by
\* the threads instead of a local.
get_thumbnail_geometry_Shared(t) ==
    /\ Stage(t, "geometry")
    /\ LET h == NewHeight(frame[t].width, frame[t].height, TargetWidth)
       IN  frame' = [u \in Threads |->
                        IF u = t
                        THEN Ran(t, "geometry",
                                 [frame[t] EXCEPT !.pc = "resize",
                                                  !.new_width = TargetWidth,
                                                  !.new_height = h])
                        ELSE [frame[u] EXCEPT !.new_height = h]]
    /\ UNCHANGED <<fs, threads, history>>

\* aspect_ratio, new_width, new_height
get_thumbnail_geometry(t) ==
    /\ Stage(t, "geometry")
    /\ frame' = [frame EXCEPT ![t] =
                    Ran(t, "geometry",
                        [frame[t] EXCEPT
                            !.pc = "resize",
                            !.new_width = TargetWidth,
                            !.new_height = NewHeight(frame[t].width,
                                                     frame[t].height,
                                                     TargetWidth)])]
    /\ UNCHANGED <<fs, threads, history>>

\* let thumbnail = img.resize_exact(new_width, new_height, Lanczos3);
get_thumbnail_resize(t) ==
    /\ Stage(t, "resize")
    /\ frame' = [frame EXCEPT ![t] =
                    Ran(t, "resize",
                        [frame[t] EXCEPT
                            !.pc = "encode",
                            !.thumbnail = resize_exact(frame[t].img,
                                                       frame[t].new_width,
                                                       frame[t].new_height)])]
    /\ UNCHANGED <<fs, threads, history>>

\* Mutant of get_thumbnail_encode: an encoder that fails now and then.
get_thumbnail_encode_Flaky(t) ==
    /\ Stage(t, "encode")
    /\ \E ok \in BOOLEAN :
          frame' = [frame EXCEPT ![t] =
                       IF ok /\ JpegEncodes(frame[t].thumbnail)
                       THEN Ran(t, "encode",
                                [frame[t] EXCEPT
                                    !.pc = "package",
                                    !.bytes = JpegBytes(frame[t].thumbnail,
                                                        JpegQuality)])
                       ELSE Fail(t, "encode", ErrEncode)]
    /\ UNCHANGED <<fs, threads, history>>

\* thumbnail.write_to(&mut Cursor::new(&mut bytes), Jpeg(90)).map_err(..)?
get_thumbnail_encode(t) ==
    /\ Stage(t, "encode")
    /\ frame' = [frame EXCEPT ![t] =
                    IF JpegEncodes(frame[t].thumbnail)
                    THEN Ran(t, "encode",
                             [frame[t] EXCEPT
                                 !.pc = "package",
                                 !.bytes = JpegBytes(frame[t].thumbnail,
                                                     JpegQuality)])
                    ELSE Fail(t, "encode", ErrEncode)]
    /\ UNCHANGED <<fs, threads, history>>

\* Mutant of get_thumbnail_package: reports the source's height.
get_thumbnail_package_SourceHeight(t) ==
    /\ Stage(t, "package")
    /\ LET data_url == DataUrl(frame[t].bytes)
       IN  frame' = [frame EXCEPT ![t] =
                        Ran(t, "package",
                            [frame[t] EXCEPT
                                !.pc = "done",
                                !.data_url = data_url,
                                !.result = ThumbnailResponse(
                                               data_url,
                                               frame[t].new_width,
                                               frame[t].height)])]
    /\ UNCHANGED <<fs, threads, history>>

\* data_url and Ok(ThumbnailResponse { data_url, width: new_width,
\* height: new_height })
get_thumbnail_package(t) ==
    /\ Stage(t, "package")
    /\ LET data_url == DataUrl(frame[t].bytes)
       IN  frame' = [frame EXCEPT ![t] =
                        Ran(t, "package",
                            [frame[t] EXCEPT
                                !.pc = "done",
                                !.data_url = data_url,
                                !.result = ThumbnailResponse(
                                               data_url,
                                               frame[t].new_width,
                                               frame[t].new_height)])]
    /\ UNCHANGED <<fs, threads, history>>

----------------------------------------------------------------------------
(* The path-opener commands *)

\* opener::open(path).unwrap();
open_file(t, path, handlerOk) ==
    /\ t \in threads
    /\ frame[t].pc = "idle"
    /\ LET opened == OpenerOpens(FileAt(fs, path), handlerOk)
       IN  frame' = [frame EXCEPT ![t] =
                        [IdleFrame EXCEPT
                            !.cmd = "open_file",
                            !.os_failed = ~opened,
                            !.pc = IF opened THEN "done" ELSE "panicked",
                            !.result = IF opened THEN Unit ELSE Panicked]]
    /\ UNCHANGED <<fs, threads, history>>

\* if let Some(parent) = Path::new(&path).parent() {
\*     let _ = opener::open(parent.to_str().unwrap()); }
open_file_folder(t, path, handlerOk) ==
    /\ t \in threads
    /\ frame[t].pc = "idle"
    /\ LET parent == Parent(path)
           opened == parent = NoPath \/ OpenerOpens(FileAt(fs, parent), handlerOk)
       IN  frame' = [frame EXCEPT ![t] =
                        [IdleFrame EXCEPT
                            !.cmd = "open_file_folder",
                            !.os_failed = ~opened,
                            !.pc = "done",
                            !.result = Unit]]
    /\ UNCHANGED <<fs, threads, history>>

----------------------------------------------------------------------------
(* The host takes the result of a command that returned *)

reply(t) ==
    /\ t \in threads
    /\ frame[t].pc = "done"
    /\ history' = IF frame[t].cmd = "get_thumbnail"
                  THEN history \cup {[path |-> frame[t].path,
                                      outcome |-> Outcome(frame[t].result)]}
                  ELSE history
    /\ frame' = [frame EXCEPT ![t] = IdleFrame]
    /\ UNCHANGED <<fs, threads>>

Next ==
    \/ \E t \in Threads, path \in Paths : invoke_get_thumbnail(t, path)
    \/ \E t \in Threads : get_thumbnail_open(t)
    \/ \E t \in Threads : get_thumbnail_decode(t)
    \/ \E t \in Threads : get_thumbnail_measure(t)
    \/ \E t \in Threads : get_thumbnail_geometry(t)
    \/ \E t \in Threads : get_thumbnail_resize(t)
    \/ \E t \in Threads : get_thumbnail_encode(t)
    \/ \E t \in Threads : get_thumbnail_package(t)
    \/ \E t \in Threads, path \in Paths, handlerOk \in BOOLEAN :
           open_file(t, path, handlerOk)
    \/ \E t \in Threads, path \in Paths, handlerOk \in BOOLEAN :
           open_file_folder(t, path, handlerOk)
    \/ \E t \in Threads : reply(t)

Spec == Init /\ [][Next]_vars

SpecGeometry == InitGeometry /\ [][Next]_vars

----------------------------------------------------------------------------
(* Properties *)

\* thread t runs get_thumbnail / its call has returned / the file it names
InThumbnail(t) == frame[t].cmd = "get_thumbnail"
Returned(t) == InThumbnail(t) /\ frame[t].pc = "done"
Source(t) == FileAt(fs, frame[t].path)
IsOk(t) == frame[t].result.tag = "Ok"

\* the exact quotient floor(W * B / A) of an A x B source
ExactHeight(file) == (TargetWidth * file.h) \div file.w

\* C1: for a decoded A x B source with A # B for which get_thumbnail
\* returns Ok, the returned height is floor(100 * B / A) computed exactly.
C1_HeightIsExactFloor ==
    \A t \in Threads :
        (Returned(t) /\ IsOk(t) /\ Source(t).w # Source(t).h)
            => frame[t].result.height = ExactHeight(Source(t))

\* C2: when the derived target height of the source is 0, get_thumbnail
\* returns an error of the resize kind: not Ok, and none of the open, decode
\* and encode errors.
C2_ZeroHeightIsResizeError ==
    \A t \in Threads :
        (Returned(t) /\ Source(t).kind = "image" /\ ExactHeight(Source(t)) = 0)
            => /\ frame[t].result.tag = "Err"
               /\ frame[t].result.err \notin {ErrOpen, ErrDecode, ErrEncode}

\* C3: every Ok result of get_thumbnail has width 100 and height >= 1.
C3_OkHasPositiveDimensions ==
    \A t \in Threads :
        (Returned(t) /\ IsOk(t))
            => /\ frame[t].result.width = TargetWidth
               /\ frame[t].result.height >= 1

\* C4: when the OS handler call of open_file or open_file_folder fails, the
\* command returns an error value to its caller: it neither returns as if it
\* had succeeded nor panics.
C4_OpenFailureIsReported ==
    \A t \in Threads :
        (frame[t].cmd \in {"open_file", "open_file_folder"} /\ frame[t].os_failed)
            => frame[t].result.tag = "Err"

C7_GarbageIsDecodeError ==
    \A t \in Threads :
        (InThumbnail(t) /\ Source(t).kind = "garbage")
            => /\ frame[t].pc # "panicked"
               /\ Returned(t)
                    => /\ frame[t].result = Err(ErrDecode)
                       /\ ErrDecode # ErrOpen

C7_Witness ==
    \E t \in Threads :
        /\ Returned(t) /\ Source(t).kind = "garbage"
        /\ frame[t].result.err = ErrDecode

\* the error with which a stage fails
StageError(stage) ==
    CASE stage = "open" -> ErrOpen
      [] stage = "decode" -> ErrDecode
      [] stage = "encode" -> ErrEncode
      [] OTHER -> ""

\* C8: the stages of one get_thumbnail call run in the order open, decode,
\* measure, geometry, resize, encode, package; a call that is still running
\* has no result and is at the stage after the last one it ran; a call that
\* returned either ran every stage and is Ok, or stopped at the stage that
\* failed, with that stage's error and no response.
C8_StagesInOrderFailFast ==
    \A t \in Threads :
        InThumbnail(t) =>
            LET trace == frame[t].trace
                n == Len(trace)
            IN  /\ n <= Len(StageOrder)
                /\ trace = SubSeq(StageOrder, 1, n)
                /\ frame[t].pc # "done"
                    => /\ frame[t].result = NoResult
                       /\ n < Len(StageOrder)
                       /\ frame[t].pc = StageOrder[n + 1]
                /\ frame[t].pc = "done"
                    => \/ /\ n = Len(StageOrder)
                          /\ IsOk(t)
                       \/ /\ n >= 1
                          /\ n < Len(StageOrder)
                          /\ StageError(trace[n]) # ""
                          /\ frame[t].result = Err(StageError(trace[n]))

C8_Witness ==
    \E t \in Threads :
        /\ Returned(t)
        /\ frame[t].result = Err(ErrEncode)
        /\ frame[t].trace = SubSeq(StageOrder, 1, 6)

\* what get_thumbnail returns for a file when it runs alone
SoloOutcome(file) ==
    IF ~ReaderOpens(file) THEN Outcome(Err(ErrOpen))
    ELSE IF ~Decodes(file) THEN Outcome(Err(ErrDecode))
    ELSE IF ~JpegEncodes(Raster(file.w, file.h, file.jpegOk))
         THEN Outcome(Err(ErrEncode))
    ELSE Outcome(ThumbnailResponse(NoDataUrl, TargetWidth,
                                   NewHeight(file.w, file.h, TargetWidth)))

\* C9: however the invocations of get_thumbnail on the threads interleave,
\* each returns what it returns for its file when it runs alone.
C9_ConcurrentAsAlone ==
    \A t \in Threads :
        Returned(t) => Outcome(frame[t].result) = SoloOutcome(Source(t))

C9_Witness ==
    \E t, u \in Threads :
        /\ t # u
        /\ Returned(t) /\ IsOk(t)
        /\ InThumbnail(u) /\ frame[u].pc \in {"resize", "encode", "package"}
        /\ frame[u].new_height # frame[t].new_height

\* C10: two get_thumbnail calls on the same path of the unmodified file
\* system have the same outcome: the same error, or Ok with the same width
\* and height.
C10_SameFileSameOutcome ==
    /\ \A g, h \in history : g.path = h.path => g.outcome = h.outcome
    /\ \A t \in Threads : \A h \in history :
          (Returned(t) /\ h.path = frame[t].path)
              => h.outcome = Outcome(frame[t].result)

C10_Witness ==
    \E t \in Threads : \E h \in history :
        /\ Returned(t) /\ IsOk(t)
        /\ h.path = frame[t].path
        /\ h.outcome = Outcome(frame[t].result)

====
